---- MODULE Spec2Model ----
(***************************************************************************)
(* Text-to-PPTX web application: the /generate and /preview request        *)
(* handlers (app.py), the slide planner (llm_providers.py) and the deck    *)
(* builder (ppt_builder.py).                                               *)
(*                                                                         *)
(* Python strings are modelled as sequences of one-character strings, so   *)
(* that slicing, strip(), lower(), 'in' and the regular expressions act on *)
(* characters as they do in the code.                                      *)
(***************************************************************************)
EXTENDS Integers, Sequences, FiniteSets, TLC

\* ---- string literals -------------------------------------------------------
\* ppt_builder.py, LAYOUT_PREFS (lines 11-22): the layout hints (h_) and the
\* preferred layout names (n_); h_unknown and the names after n_title are
\* hints and layout names of templates only
h_title_and_content ==
    <<"t","i","t","l","e","_","a","n","d","_","c","o","n","t","e","n","t">>
h_title_only ==
    <<"t","i","t","l","e","_","o","n","l","y">>
h_section_header ==
    <<"s","e","c","t","i","o","n","_","h","e","a","d","e","r">>
h_two_content ==
    <<"t","w","o","_","c","o","n","t","e","n","t">>
h_quote ==
    <<"q","u","o","t","e">>
h_comparison ==
    <<"c","o","m","p","a","r","i","s","o","n">>
h_timeline ==
    <<"t","i","m","e","l","i","n","e">>
h_process ==
    <<"p","r","o","c","e","s","s">>
h_overview ==
    <<"o","v","e","r","v","i","e","w">>
h_summary ==
    <<"s","u","m","m","a","r","y">>
h_unknown ==
    <<"a","g","e","n","d","a">>
n_TitleAndContent ==
    <<"T","i","t","l","e"," ","a","n","d"," ","C","o","n","t","e","n","t">>
n_ContentWithCaption ==
    <<"C","o","n","t","e","n","t"," ","w","i","t","h"," ","C","a","p","t","i","o","n">>
n_TitleAndContentP2 ==
    <<"T","i","t","l","e"," ","a","n","d"," ","C","o","n","t","e","n","t"," ","(","2",")">>
n_TitleAndContent2 ==
    <<"T","i","t","l","e"," ","a","n","d"," ","C","o","n","t","e","n","t"," ","2">>
n_TitleOnly ==
    <<"T","i","t","l","e"," ","O","n","l","y">>
n_BlankTitle ==
    <<"B","l","a","n","k"," ","T","i","t","l","e">>
n_Title ==
    <<"T","i","t","l","e">>
n_SectionHeader ==
    <<"S","e","c","t","i","o","n"," ","H","e","a","d","e","r">>
n_SectionTitle ==
    <<"S","e","c","t","i","o","n"," ","T","i","t","l","e">>
n_TitleSlide ==
    <<"T","i","t","l","e"," ","S","l","i","d","e">>
n_TwoContent ==
    <<"T","w","o"," ","C","o","n","t","e","n","t">>
n_TwoContentAndTitle ==
    <<"T","w","o"," ","C","o","n","t","e","n","t"," ","a","n","d"," ","T","i","t","l","e">>
n_Comparison ==
    <<"C","o","m","p","a","r","i","s","o","n">>
n_Quote ==
    <<"Q","u","o","t","e">>
n_title ==
    <<"t","i","t","l","e">>
n_Blank ==
    <<"B","l","a","n","k">>
n_UpperTitleOnly ==
    <<"T","I","T","L","E"," ","O","N","L","Y">>
n_Subtitled ==
    <<"S","u","b","t","i","t","l","e","d"," ","P","i","c","t","u","r","e">>
n_PictureWithCaption ==
    <<"P","i","c","t","u","r","e"," ","w","i","t","h"," ","C","a","p","t","i","o","n">>
\* app.py: the error messages of /generate and /preview, the accepted extensions
m_input_required ==
    <<"I","n","p","u","t"," ","t","e","x","t"," ","i","s"," ","r","e","q","u","i","r","e","d",".">>
m_key_required ==
    <<"A","P","I"," ","k","e","y"," ","i","s"," ","r","e","q","u","i","r","e","d"," ","f","o","r"," ","t","h","e"," ","s","e","l","e","c","t","e","d"," ","p","r","o","v","i","d","e","r",".">>
m_upload_required ==
    <<"P","l","e","a","s","e"," ","u","p","l","o","a","d"," ","a"," ",".","p","p","t","x"," ","o","r"," ",".","p","o","t","x"," ","t","e","m","p","l","a","t","e","/","p","r","e","s","e","n","t","a","t","i","o","n",".">>
m_bad_extension ==
    <<"O","n","l","y"," ",".","p","p","t","x"," ","o","r"," ",".","p","o","t","x"," ","f","i","l","e","s"," ","a","r","e"," ","s","u","p","p","o","r","t","e","d",".">>
m_llm_provider_error ==
    <<"L","L","M"," ","p","r","o","v","i","d","e","r"," ","e","r","r","o","r",":"," ">>
m_failed_plan ==
    <<"F","a","i","l","e","d"," ","t","o"," ","g","e","t"," ","a"," ","s","l","i","d","e"," ","p","l","a","n"," ","f","r","o","m"," ","L","L","M",":"," ">>
m_failed_build ==
    <<"F","a","i","l","e","d"," ","t","o"," ","b","u","i","l","d"," ","P","P","T","X",":"," ">>
m_unexpected ==
    <<"U","n","e","x","p","e","c","t","e","d"," ","e","r","r","o","r",":"," ">>
x_pptx ==
    <<".","p","p","t","x">>
x_potx ==
    <<".","p","o","t","x">>
\* llm_providers.py: messages of ProviderError, provider names, endpoints
m_openai_api_error ==
    <<"O","p","e","n","A","I"," ","A","P","I"," ","e","r","r","o","r"," ">>
m_aipipe_api_error ==
    <<"A","I","-","P","i","p","e"," ","A","P","I"," ","e","r","r","o","r"," ">>
m_anthropic_api_error ==
    <<"A","n","t","h","r","o","p","i","c"," ","A","P","I"," ","e","r","r","o","r"," ">>
m_gemini_api_error ==
    <<"G","e","m","i","n","i"," ","A","P","I"," ","e","r","r","o","r"," ">>
m_colon ==
    <<":"," ">>
m_openai_missing ==
    <<"O","p","e","n","A","I"," ","r","e","s","p","o","n","s","e"," ","m","i","s","s","i","n","g"," ","c","o","n","t","e","n","t">>
m_aipipe_missing ==
    <<"A","I","-","P","i","p","e"," ","r","e","s","p","o","n","s","e"," ","m","i","s","s","i","n","g"," ","c","o","n","t","e","n","t">>
m_anthropic_missing ==
    <<"A","n","t","h","r","o","p","i","c"," ","r","e","s","p","o","n","s","e"," ","m","i","s","s","i","n","g"," ","t","e","x","t"," ","c","o","n","t","e","n","t">>
m_gemini_missing ==
    <<"G","e","m","i","n","i"," ","r","e","s","p","o","n","s","e"," ","m","i","s","s","i","n","g"," ","t","e","x","t"," ","c","o","n","t","e","n","t">>
m_non_json ==
    <<"P","r","o","v","i","d","e","r"," ","r","e","t","u","r","n","e","d"," ","n","o","n","-","J","S","O","N"," ","o","u","t","p","u","t",":"," ">>
m_key_invalid ==
    <<"A","P","I"," ","k","e","y"," ","l","o","o","k","s"," ","i","n","v","a","l","i","d","."," ","P","a","s","t","e"," ","o","n","l","y"," ","y","o","u","r"," ","p","r","o","v","i","d","e","r"," ","t","o","k","e","n"," ","(","n","o"," ","q","u","o","t","e","s","/","B","e","a","r","e","r","/","s","p","a","c","e","s",")",".">>
m_unsupported ==
    <<"U","n","s","u","p","p","o","r","t","e","d"," ","p","r","o","v","i","d","e","r",":"," ">>
m_no_slides ==
    <<"N","o"," ","s","l","i","d","e","s"," ","r","e","t","u","r","n","e","d"," ","b","y"," ","p","r","o","v","i","d","e","r",".">>
p_openai ==
    <<"o","p","e","n","a","i">>
p_anthropic ==
    <<"a","n","t","h","r","o","p","i","c">>
p_google ==
    <<"g","o","o","g","l","e">>
p_gemini ==
    <<"g","e","m","i","n","i">>
p_google_gemini ==
    <<"g","o","o","g","l","e","-","g","e","m","i","n","i">>
p_aipipe ==
    <<"a","i","p","i","p","e">>
u_openai_host ==
    <<"a","p","i",".","o","p","e","n","a","i",".","c","o","m">>
u_openai_path ==
    <<"/","v","1","/","c","h","a","t","/","c","o","m","p","l","e","t","i","o","n","s">>
u_aipipe_host ==
    <<"a","i","p","i","p","e",".","o","r","g">>
u_aipipe_path ==
    <<"/","o","p","e","n","a","i","/","v","1","/","c","h","a","t","/","c","o","m","p","l","e","t","i","o","n","s">>
u_anthropic_host ==
    <<"a","p","i",".","a","n","t","h","r","o","p","i","c",".","c","o","m">>
u_anthropic_path ==
    <<"/","v","1","/","m","e","s","s","a","g","e","s">>
u_gemini_host ==
    <<"g","e","n","e","r","a","t","i","v","e","l","a","n","g","u","a","g","e",".","g","o","o","g","l","e","a","p","i","s",".","c","o","m">>
u_gemini_path ==
    <<"/","v","1","b","e","t","a","/","m","o","d","e","l","s","/","g","e","m","i","n","i","-","1",".","5","-","p","r","o",":","g","e","n","e","r","a","t","e","C","o","n","t","e","n","t","?","k","e","y","=">>
a_bearer ==
    <<"B","e","a","r","e","r"," ">>
\* llm_providers.py, _validate_api_key_like: bad_substrings
bad_space ==
    <<" ">>
bad_http ==
    <<"h","t","t","p">>
bad_bearer ==
    <<"B","e","a","r","e","r"," ">>
bad_provider_lower ==
    <<"p","r","o","v","i","d","e","r",".","l","o","w","e","r","(",")">>
bad_elif ==
    <<"e","l","i","f"," ">>
\* llm_providers.py, _coerce_json: the code fence (three backquotes, each
\* written "~" here and in the completions below) and its optional tag
f_fence ==
    <<"~","~","~">>
f_json ==
    <<"j","s","o","n">>
\* request inputs: uploaded file names, credentials, input texts, providers
fn_deck_pptx ==
    <<"d","e","c","k",".","p","p","t","x">>
fn_deck_txt ==
    <<"d","e","c","k",".","t","x","t">>
fn_Deck_PPTX ==
    <<"D","e","c","k",".","P","P","T","X">>
fn_theme_potx ==
    <<"t","h","e","m","e",".","p","o","t","x">>
fn_dot_pptx ==
    <<".","p","p","t","x">>
fn_deck_pptx_dot ==
    <<"d","e","c","k",".","p","p","t","x",".">>
fn_my_deck_pptx ==
    <<".",".","/","m","y"," ","d","e","c","k",".","p","p","t","x">>
fn_deck ==
    <<"d","e","c","k">>
key_good ==
    <<"s","k","-","t","e","s","t","-","0","1","2","3","4","5","6","7","8","9","a","b","c","d","e","f","X","Y","Z">>
key_short ==
    <<"s","k","-","s","h","o","r","t">>
key_bearer ==
    <<"B","e","a","r","e","r"," ","s","k","-","t","e","s","t","-","0","1","2","3","4","5","6","7","8","9","a","b","c","d","e","f","X","Y","Z">>
key_http ==
    <<"h","t","t","p","s",":","/","/","k","e","y","s",".","e","x","a","m","p","l","e","/","0","1","2","3","4","5","6","7","8","9">>
key_blank ==
    <<" "," "," ">>
txt_roadmap ==
    <<" ","O","u","r"," ","Q","3"," ","r","o","a","d","m","a","p"," ">>
txt_blank ==
    <<" "," ">>
in_openai ==
    <<" ","O","p","e","n","A","I"," ">>
in_anthropic ==
    <<"a","n","t","h","r","o","p","i","c">>
in_gemini ==
    <<"g","e","m","i","n","i">>
in_google ==
    <<"G","o","o","g","l","e">>
in_aipipe ==
    <<"a","i","p","i","p","e">>
in_cohere ==
    <<"c","o","h","e","r","e">>
\* provider responses: an error body, completions, pieces of slide payloads
body_bad_key ==
    <<"{","\"","e","r","r","o","r","\"",":"," ","\"","i","n","v","a","l","i","d"," ","a","p","i"," ","k","e","y","\"","}">>
c_empty_slides ==
    <<"{","\"","s","l","i","d","e","s","\"",":","[","]","}">>
c_two_slides ==
    <<"{","\"","s","l","i","d","e","s","\"",":","[","{","\"","t","i","t","l","e","\"",":","\"","A","\"",",","\"","b","u","l","l","e","t","s","\"",":","[","\"","x","\"",",","\"","y","\"","]","}",",","{","\"","t","i","t","l","e","\"",":","\"","B","\"",",","\"","n","o","t","e","s","\"",":","\"","n","\"",",","\"","l","a","y","o","u","t","_","h","i","n","t","\"",":","\"","q","u","o","t","e","\"","}","]","}">>
c_fenced ==
    <<"~","~","~","j","s","o","n","\n","{","\"","s","l","i","d","e","s","\"",":","[","{","\"","t","i","t","l","e","\"",":","\"","A","\"","}","]","}","\n","~","~","~">>
c_prose ==
    <<"H","e","r","e"," ","y","o","u"," ","g","o",":"," ","{","\"","s","l","i","d","e","s","\"",":","[","{","\"","t","i","t","l","e","\"",":","\"","A","\"",",","\"","l","a","y","o","u","t","_","h","i","n","t","\"",":","f","a","l","s","e","}","]","}"," ","E","n","j","o","y","!">>
c_array ==
    <<"[","1",",","2","]">>
c_null ==
    <<"n","u","l","l">>
c_string ==
    <<"\"","t","e","x","t","\"">>
c_number ==
    <<"5">>
c_slides_string ==
    <<"{","\"","s","l","i","d","e","s","\"",":","\"","a","b","c","\"","}">>
c_slides_object ==
    <<"{","\"","s","l","i","d","e","s","\"",":","{","\"","a","\"",":","1","}","}">>
c_no_slides_key ==
    <<"{","\"","t","i","t","l","e","\"",":","\"","x","\"","}">>
c_not_json ==
    <<"S","o","r","r","y",","," ","I"," ","c","a","n","n","o","t"," ","h","e","l","p"," ","w","i","t","h"," ","t","h","a","t",".">>
c_entry_not_object ==
    <<"{","\"","s","l","i","d","e","s","\"",":","[","{","\"","t","i","t","l","e","\"",":","\"","A","\"","}",",","1","]","}">>
c_wrapped_in_array ==
    <<"[","{","\"","s","l","i","d","e","s","\"",":","[","{","}","]","}","]">>
t_open ==
    <<"{","\"","s","l","i","d","e","s","\"",":","[">>
t_close ==
    <<"]","}">>
t_comma ==
    <<",">>
t_entry_open ==
    <<"{","\"","t","i","t","l","e","\"",":","\"">>
t_entry_plain ==
    <<"\"","}">>
t_entry_full ==
    <<"\"",",","\"","n","o","t","e","s","\"",":","\"","n","\"",",","\"","l","a","y","o","u","t","_","h","i","n","t","\"",":","\"","q","u","o","t","e","\"","}">>
t_entry_empty_hint ==
    <<"\"",",","\"","l","a","y","o","u","t","_","h","i","n","t","\"",":","\"","\"","}">>
t_entry_nulls ==
    <<"\"",",","\"","l","a","y","o","u","t","_","h","i","n","t","\"",":","n","u","l","l",",","\"","n","o","t","e","s","\"",":","n","u","l","l",",","\"","b","u","l","l","e","t","s","\"",":","[","\"","x","\"",",","\"","y","\"",",","\"","z","\"","]","}">>
\* texts of the exceptions raised by json, requests and the interpreter
e_expecting_value ==
    <<"E","x","p","e","c","t","i","n","g"," ","v","a","l","u","e",":"," ","l","i","n","e"," ","1"," ","c","o","l","u","m","n"," ","1"," ","(","c","h","a","r"," ","0",")">>
e_no_attribute ==
    <<"o","b","j","e","c","t"," ","h","a","s"," ","n","o"," ","a","t","t","r","i","b","u","t","e"," ","'","g","e","t","'">>
e_type_error ==
    <<"a","r","g","u","m","e","n","t"," ","i","s"," ","n","o","t"," ","i","t","e","r","a","b","l","e"," ","o","r"," ","d","o","e","s"," ","n","o","t"," ","s","u","p","p","o","r","t"," ","i","t","e","m"," ","a","s","s","i","g","n","m","e","n","t">>
e_max_retries ==
    <<"H","T","T","P","S","C","o","n","n","e","c","t","i","o","n","P","o","o","l","(","p","o","r","t","=","4","4","3",")",":"," ","M","a","x"," ","r","e","t","r","i","e","s"," ","e","x","c","e","e","d","e","d"," ","w","i","t","h"," ","u","r","l",":"," ">>
e_read_timeout ==
    <<"H","T","T","P","S","C","o","n","n","e","c","t","i","o","n","P","o","o","l","(","p","o","r","t","=","4","4","3",")",":"," ","R","e","a","d"," ","t","i","m","e","d"," ","o","u","t","."," ","(","r","e","a","d"," ","t","i","m","e","o","u","t","=","6","0",")">>
e_build ==
    <<"c","a","n","n","o","t"," ","b","u","i","l","d"," ","t","h","e"," ","p","r","e","s","e","n","t","a","t","i","o","n">>
\* keys of a slide descriptor and of the payload
k_title ==
    <<"t","i","t","l","e">>
k_bullets ==
    <<"b","u","l","l","e","t","s">>
k_layout_hint ==
    <<"l","a","y","o","u","t","_","h","i","n","t">>
k_notes ==
    <<"n","o","t","e","s">>
k_slides ==
    <<"s","l","i","d","e","s">>

\* ---- Python string operations ------------------------------------------------
UpperCase ==
    <<"A","B","C","D","E","F","G","H","I","J","K","L","M",
      "N","O","P","Q","R","S","T","U","V","W","X","Y","Z">>
LowerCase ==
    <<"a","b","c","d","e","f","g","h","i","j","k","l","m",
      "n","o","p","q","r","s","t","u","v","w","x","y","z">>

Min(a, b) == IF a <= b THEN a ELSE b

\* str.lower() on one character, then on a string
LowerChar(c) ==
    IF \E i \in 1..Len(UpperCase) : UpperCase[i] = c
    THEN LowerCase[CHOOSE i \in 1..Len(UpperCase) : UpperCase[i] = c]
    ELSE c
Lower(s) == [i \in 1..Len(s) |-> LowerChar(s[i])]

\* needle occurs in hay at (1-based) offset k
StartsAt(needle, hay, k) ==
    /\ k >= 1
    /\ k + Len(needle) - 1 <= Len(hay)
    /\ \A i \in 1..Len(needle) : hay[k + i - 1] = needle[i]
\* Python's 'needle in hay'
Contains(needle, hay) ==
    \E k \in 1..(Len(hay) - Len(needle) + 1) : StartsAt(needle, hay, k)
\* Python's s[:n]
Take(s, n) == SubSeq(s, 1, Min(n, Len(s)))

\* ---- JSON / Python values ----------------------------------------------------
\* A value is tagged with its Python type; a dict is a function from its keys
\* (strings) to values, a list a sequence of values.
JNull == [t |-> "null", v |-> 0]
JBool(b) == [t |-> "bool", v |-> b]
JNum(n) == [t |-> "num", v |-> n]
JStr(s) == [t |-> "str", v |-> s]
JList(items) == [t |-> "list", v |-> items]
JDict(f) == [t |-> "dict", v |-> f]
EmptyDict == JDict([k \in {} |-> JNull])

\* Python truthiness: 'not x'
Falsy(x) ==
    \/ x.t = "null"
    \/ x.t = "bool" /\ x.v = FALSE
    \/ x.t = "num" /\ x.v = 0
    \/ x.t = "str" /\ Len(x.v) = 0
    \/ x.t = "list" /\ Len(x.v) = 0
    \/ x.t = "dict" /\ DOMAIN x.v = {}
\* dict.get(key, default) and 'key in dict'
HasKey(d, key) == key \in DOMAIN d.v
Get(d, key, default) == IF HasKey(d, key) THEN d.v[key] ELSE default
\* 'x or y'
OrElse(x, y) == IF Falsy(x) THEN y ELSE x

\* ---- ppt_builder.py: layout selection ----------------------------------------
LAYOUT_PREFS ==
    << <<h_title_and_content, <<n_TitleAndContent, n_ContentWithCaption,
                                n_TitleAndContentP2, n_TitleAndContent2>> >>,
       <<h_title_only,        <<n_TitleOnly, n_BlankTitle, n_Title>> >>,
       <<h_section_header,    <<n_SectionHeader, n_SectionTitle, n_TitleSlide>> >>,
       <<h_two_content,       <<n_TwoContent, n_TwoContentAndTitle, n_Comparison>> >>,
       <<h_quote,             <<n_Quote, n_TitleOnly>> >>,
       <<h_comparison,        <<n_Comparison, n_TwoContent>> >>,
       <<h_timeline,          <<n_TitleAndContent, n_TwoContent>> >>,
       <<h_process,           <<n_TitleAndContent, n_TwoContent>> >>,
       <<h_overview,          <<n_TitleAndContent, n_TitleOnly>> >>,
       <<h_summary,           <<n_TitleAndContent, n_TitleOnly>> >> >>

DefaultPrefs == <<n_TitleAndContent, n_TitleOnly>>

\* next((p[1] for p in LAYOUT_PREFS if p[0] == layout_hint), None) or [...]
PrefsFor(layout_hint) ==
    LET hits == {k \in 1..Len(LAYOUT_PREFS) :
                    layout_hint.t = "str" /\ LAYOUT_PREFS[k][1] = layout_hint.v}
    IN IF hits = {} THEN DefaultPrefs
       ELSE LAYOUT_PREFS[CHOOSE k \in hits : \A m \in hits : k <= m][2]

\* for i, layout in enumerate(prs.slide_layouts): if name.lower() in lname.lower(): return i
\* (0-based index of the first layout from position i on whose name contains
\* 'name', -1 when the loop runs out)
RECURSIVE LayoutScan(_, _, _)
LayoutScan(names, name, i) ==
    IF i > Len(names) THEN -1
    ELSE IF Contains(Lower(name), Lower(names[i])) THEN i - 1
    ELSE LayoutScan(names, name, i + 1)

\* for name in prefs: <inner loop>
RECURSIVE PrefScan(_, _, _)
PrefScan(names, prefs, j) ==
    IF j > Len(prefs) THEN -1
    ELSE LET r == LayoutScan(names, prefs[j], 1)
         IN IF r >= 0 THEN r ELSE PrefScan(names, prefs, j + 1)

\* A plausible slip: the loops nested the other way (layout order first).
RECURSIVE PrefScanLayoutFirst(_, _, _)
PrefScanLayoutFirst(names, prefs, i) ==
    IF i > Len(names) THEN -1
    ELSE IF \E j \in 1..Len(prefs) : Contains(Lower(prefs[j]), Lower(names[i]))
         THEN i - 1
         ELSE PrefScanLayoutFirst(names, prefs, i + 1)
find_layout_index_layout_first(names, layout_hint) ==
    LET r == PrefScanLayoutFirst(names, PrefsFor(layout_hint), 1)
    IN IF r >= 0 THEN r
       ELSE LET t == LayoutScan(names, n_title, 1)
            IN IF t >= 0 THEN t ELSE 0

\* _find_layout_index(prs, layout_hint); 'names' are the names of
\* prs.slide_layouts in order (a layout without a name counts as "")
find_layout_index(names, layout_hint) ==
    LET r == PrefScan(names, PrefsFor(layout_hint), 1)
    IN IF r >= 0 THEN r
       ELSE LET t == LayoutScan(names, n_title, 1)
            IN IF t >= 0 THEN t ELSE 0

\* ---- ppt_builder.py: slides, placeholders, text --------------------------------
\* Truncation limits of build_presentation / _set_bullets and the font rules.
TITLE_MAX == 200
BULLETS_MAX == 12
LONG_TITLE == 70
LONG_BULLET == 80
TITLE_SMALL_PT == 20
BULLET_SMALL_PT == 16

\* Placeholder roles (PP_PLACEHOLDER members) the code looks for. No
\* placeholder of a file has the role CONTENT: where the library defines the
\* name at all (pp_content), no shape carries it.
TitleTypes == {"TITLE", "CENTER_TITLE", "SUBTITLE"}
BodyTypes == {"BODY", "CONTENT"}
\* Layout placeholders that add_slide does not clone onto a new slide.
NotCloned == {"DATE", "FOOTER", "SLIDE_NUMBER"}

EmptyParagraph == [runs |-> <<>>, level |-> 0]
\* A shape: 'top' is its vertical position in tenths of an inch (0: inherited
\* from the layout), 'image' the id of the blob a picture shows (0: none).
NewPlaceholder(type) ==
    [kind |-> "placeholder", ph_type |-> type, has_text_frame |-> TRUE,
     paragraphs |-> <<EmptyParagraph>>, image |-> 0, top |-> 0]
\* slide.shapes.add_textbox(Inches(1), top, ...)
NewTextbox(top) ==
    [kind |-> "textbox", ph_type |-> "", has_text_frame |-> TRUE,
     paragraphs |-> <<EmptyParagraph>>, image |-> 0, top |-> top]
\* slide.shapes.add_picture(blob, Inches(0.4), Inches(5.2), ...)
NewPicture(img, top) ==
    [kind |-> "picture", ph_type |-> "", has_text_frame |-> FALSE,
     paragraphs |-> <<>>, image |-> img, top |-> top]

IsCloneable(type) == type \notin NotCloned
RECURSIVE ClonePlaceholders(_)
ClonePlaceholders(types) ==
    IF types = <<>> THEN <<>>
    ELSE (IF IsCloneable(Head(types)) THEN <<NewPlaceholder(Head(types))>> ELSE <<>>)
         \o ClonePlaceholders(Tail(types))

\* prs.slides.add_slide(layout): a slide carrying the layout's placeholders.
\* 'entry' records the plan index the slide is built for (-1: a slide that
\* came with the template); the relationship id of a new slide is not read
\* again and is left 0.
add_slide(layout, layout_idx, entry) ==
    [rId |-> 0, entry |-> entry, layout |-> layout_idx,
     shapes |-> ClonePlaceholders(layout.placeholders), notes |-> <<>>]

\* _first_placeholder(slide, *types): position in slide.shapes of the first
\* placeholder whose type is in 'types', 0 for None.
RECURSIVE FirstPlaceholderFrom(_, _, _)
FirstPlaceholderFrom(shapes, types, i) ==
    IF i > Len(shapes) THEN 0
    ELSE IF shapes[i].kind = "placeholder" /\ shapes[i].ph_type \in types THEN i
    ELSE FirstPlaceholderFrom(shapes, types, i + 1)
first_placeholder(slide, types) == FirstPlaceholderFrom(slide.shapes, types, 1)

\* _set_text(shape, text): 'text' is a str, or another value the slice at
\* line 145 let through (a list); assigning a non-str to run.text raises
\* after the run was added, and the exception is swallowed.
set_text(shape, text) ==
    IF ~shape.has_text_frame THEN shape
    ELSE IF text.t = "str"
         THEN [shape EXCEPT !.paragraphs =
                  << [runs |-> << [text |-> text.v,
                                   size |-> IF Len(text.v) > LONG_TITLE
                                            THEN TITLE_SMALL_PT ELSE 0] >>,
                      level |-> 0] >>]
         ELSE [shape EXCEPT !.paragraphs =
                  << [runs |-> << [text |-> <<>>, size |-> 0] >>, level |-> 0] >>]

\* The loop of _set_bullets over bullets[:12]: one paragraph per bullet; the
\* first bullet that is not a str raises inside the try and ends the loop with
\* its paragraph holding an empty run.
RECURSIVE BulletParagraphs(_, _)
BulletParagraphs(items, i) ==
    IF i > Len(items) THEN <<>>
    ELSE IF items[i].t = "str"
         THEN << [runs |-> << [text |-> items[i].v,
                               size |-> IF Len(items[i].v) > LONG_BULLET
                                        THEN BULLET_SMALL_PT ELSE 0] >>,
                  level |-> 0] >>
              \o BulletParagraphs(items, i + 1)
         ELSE << [runs |-> << [text |-> <<>>, size |-> 0] >>, level |-> 0] >>

\* Iterating a value: a list yields its items, a str its characters.
Items(x) ==
    IF x.t = "list" THEN x.v
    ELSE [i \in 1..Len(x.v) |-> JStr(<<x.v[i]>>)]

\* _set_bullets(shape, bullets)
set_bullets(shape, bullets) ==
    IF ~shape.has_text_frame THEN shape
    ELSE LET ps == BulletParagraphs(Take(Items(bullets), BULLETS_MAX), 1)
         IN [shape EXCEPT !.paragraphs = IF ps = <<>> THEN <<EmptyParagraph>> ELSE ps]

\* _ensure_notes(slide, text): nothing for a falsy text; a str is written to
\* the notes text frame; anything else raises there and is swallowed.
ensure_notes(slide, text) ==
    IF Falsy(text) THEN slide
    ELSE IF text.t = "str" THEN [slide EXCEPT !.notes = text.v]
    ELSE slide

\* value[:n] as the code applies it to title and bullets: defined for str and
\* list, a TypeError for every other (truthy) value.
Sliceable(x) == x.t \in {"str", "list"}
Slice(x, n) == [t |-> x.t, v |-> Take(x.v, n)]

\* Positions of the fallback textboxes and of a reused picture (tenths of an inch).
TITLE_BOX_TOP == 7
BODY_BOX_TOP == 17
PICTURE_TOP == 52
IMAGE_EVERY == 3
FEW_BULLETS == 2

\* Blobs add_picture cannot read (an image format the library does not
\* recognise): the placement raises and is swallowed.
UnplaceableImages == {3}

\* _collect_template_images before the shuffle: the blobs of the picture
\* shapes, slide by slide; a picture without an embedded image is skipped.
RECURSIVE ShapeImages(_)
ShapeImages(shapes) ==
    IF shapes = <<>> THEN <<>>
    ELSE (IF Head(shapes).kind = "picture" /\ Head(shapes).image # 0
          THEN <<Head(shapes).image>> ELSE <<>>)
         \o ShapeImages(Tail(shapes))
RECURSIVE CollectImages(_)
CollectImages(slides) ==
    IF slides = <<>> THEN <<>>
    ELSE ShapeImages(Head(slides).shapes) \o CollectImages(Tail(slides))

\* random.shuffle(images): any arrangement of the same images
IsShuffleOf(p, images) ==
    /\ Len(p) = Len(images)
    /\ \E f \in [1..Len(images) -> 1..Len(images)] :
          /\ \A i, j \in 1..Len(images) : i # j => f[i] # f[j]
          /\ \A i \in 1..Len(images) : p[i] = images[f[i]]
Shuffles(images) ==
    {p \in [1..Len(images) -> {images[i] : i \in 1..Len(images)}] : IsShuffleOf(p, images)}

\* sldIdLst.remove(sldId): the list without its first occurrence of the id
RECURSIVE RemoveSlide(_, _)
RemoveSlide(sldIdLst, rId) ==
    IF sldIdLst = <<>> THEN <<>>
    ELSE IF Head(sldIdLst).rId = rId THEN Tail(sldIdLst)
    ELSE <<Head(sldIdLst)>> \o RemoveSlide(Tail(sldIdLst), rId)

\* for sldId in slide_ids: drop_rel; sldIdLst.remove(sldId)
RECURSIVE PurgeLoop(_, _)
PurgeLoop(sldIdLst, slide_ids) ==
    IF slide_ids = <<>> THEN sldIdLst
    ELSE PurgeLoop(RemoveSlide(sldIdLst, Head(slide_ids).rId), Tail(slide_ids))

\* A plausible slip: iterating the live list while removing from it, which
\* skips the element after every removed one.
RECURSIVE PurgeLive(_, _)
PurgeLive(sldIdLst, pos) ==
    IF pos > Len(sldIdLst) THEN sldIdLst
    ELSE PurgeLive(RemoveSlide(sldIdLst, sldIdLst[pos].rId), pos + 1)
purge_iterating_live_list(sldIdLst) == PurgeLive(sldIdLst, 1)

\* _purge_all_existing_slides(prs): slide_ids is a copy of the list
purge_all_existing_slides(sldIdLst) == PurgeLoop(sldIdLst, sldIdLst)

\* A plausible slip: the title written without the [:200] slice.
title_text_unsliced(slide_data) ==
    OrElse(Get(slide_data, k_title, JNull), JStr(<<>>))
\* title_text = (slide_data.get("title") or "")[:200]
title_text_of(slide_data) ==
    Slice(OrElse(Get(slide_data, k_title, JNull), JStr(<<>>)), TITLE_MAX)
\* bullets = (slide_data.get("bullets") or [])[:12]
bullets_of(slide_data) ==
    Slice(OrElse(Get(slide_data, k_bullets, JNull), JList(<<>>)), BULLETS_MAX)

LayoutNames(layouts) == [i \in 1..Len(layouts) |-> layouts[i].name]

\* One iteration of the loop of build_presentation raises when the entry is
\* no dict (.get), when the template has no layout (slide_layouts[0]), when
\* title or bullets is a truthy value that cannot be sliced, or when the
\* enumeration PP_PLACEHOLDER of the installed python-pptx has no member
\* CONTENT (the attribute is read at line 155, outside any try).
SlideRaises(layouts, slide_data, has_content) ==
    \/ ~has_content
    \/ slide_data.t # "dict"
    \/ Len(layouts) = 0
    \/ ~Sliceable(OrElse(Get(slide_data, k_title, JNull), JStr(<<>>)))
    \/ ~Sliceable(OrElse(Get(slide_data, k_bullets, JNull), JList(<<>>)))

\* A plausible slip: "fewer than two bullets" for "two or fewer".
image_due_fewer_than(template_images, idx, bullets) ==
    /\ Len(template_images) > 0
    /\ (idx % IMAGE_EVERY = 0 \/ Len(bullets.v) < FEW_BULLETS)
\* line 179: template_images and ((idx % 3 == 0) or len(bullets) <= 2)
image_due(template_images, idx, bullets) ==
    /\ Len(template_images) > 0
    /\ (idx % IMAGE_EVERY = 0 \/ Len(bullets.v) <= FEW_BULLETS)

\* One iteration of the loop of build_presentation that does not raise: the
\* slide it appends.
BuildSlide(layouts, template_images, idx, slide_data) ==
    LET layout_idx == find_layout_index(LayoutNames(layouts),
                          Get(slide_data, k_layout_hint, JStr(h_title_and_content)))
        s0 == add_slide(layouts[layout_idx + 1], layout_idx, idx)
        title_text == title_text_of(slide_data)
        bullets == bullets_of(slide_data)
        title_ph == first_placeholder(s0, TitleTypes)
        body_ph == first_placeholder(s0, BodyTypes)
        s1 == IF title_ph # 0
              THEN [s0 EXCEPT !.shapes[title_ph] = set_text(@, title_text)]
              ELSE [s0 EXCEPT !.shapes =
                       Append(@, set_text(NewTextbox(TITLE_BOX_TOP), title_text))]
        s2 == IF body_ph # 0
              THEN [s1 EXCEPT !.shapes[body_ph] = set_bullets(@, bullets)]
              ELSE [s1 EXCEPT !.shapes =
                       Append(@, set_bullets(NewTextbox(BODY_BOX_TOP), bullets))]
        s3 == ensure_notes(s2, Get(slide_data, k_notes, JStr(<<>>)))
        img == template_images[(idx % Len(template_images)) + 1]
    IN IF /\ image_due(template_images, idx, bullets)
          /\ img \notin UnplaceableImages
       THEN [s3 EXCEPT !.shapes = Append(@, NewPicture(img, PICTURE_TOP))]
       ELSE s3

\* The loop of build_presentation from plan index idx on: the slide list at
\* its end, or raised when an iteration raises.
RECURSIVE BuildLoop(_, _, _, _, _, _)
BuildLoop(layouts, slides, template_images, slides_plan, idx, has_content) ==
    IF idx >= Len(slides_plan) THEN [raised |-> FALSE, slides |-> slides]
    ELSE IF SlideRaises(layouts, slides_plan[idx + 1], has_content)
         THEN [raised |-> TRUE, slides |-> <<>>]
    ELSE BuildLoop(layouts,
                   Append(slides, BuildSlide(layouts, template_images, idx,
                                             slides_plan[idx + 1])),
                   template_images, slides_plan, idx + 1, has_content)

\* build_presentation(template_bytes, slides_plan) with the shuffle's outcome
\* and the library's enumeration given: the slides of the saved document, or
\* raised.
build_presentation(template, template_images, slides_plan, has_content) ==
    BuildLoop(template.layouts, purge_all_existing_slides(template.slides),
              template_images, slides_plan, 0, has_content)

\* ---- llm_providers.py: json.loads ------------------------------------------------
Whitespace == {" ", "\n", "\t", "\r"}
Digits == <<"0", "1", "2", "3", "4", "5", "6", "7", "8", "9">>
IsDigit(c) == \E d \in 1..Len(Digits) : Digits[d] = c
DigitValue(c) == (CHOOSE d \in 1..Len(Digits) : Digits[d] = c) - 1

\* str.strip(): without leading and trailing whitespace
RECURSIVE SkipWs(_, _)
SkipWs(s, i) == IF i <= Len(s) /\ s[i] \in Whitespace THEN SkipWs(s, i + 1) ELSE i
RECURSIVE SkipWsBack(_, _)
SkipWsBack(s, i) == IF i >= 1 /\ s[i] \in Whitespace THEN SkipWsBack(s, i - 1) ELSE i
Strip(s) == SubSeq(s, SkipWs(s, 1), SkipWsBack(s, Len(s)))
StartsWith(s, prefix) == StartsAt(prefix, s, 1)
EndsWith(s, suffix) == StartsAt(suffix, s, Len(s) - Len(suffix) + 1)

\* str(n) for n >= 0
RECURSIVE IntToStr(_)
IntToStr(n) ==
    IF n < 10 THEN <<Digits[n + 1]>>
    ELSE IntToStr(n \div 10) \o <<Digits[(n % 10) + 1]>>

\* A parse step: ok, the value read, and the position after it.
ParseFail == [ok |-> FALSE, v |-> JNull, n |-> 0]
ParseOk(v, n) == [ok |-> TRUE, v |-> v, n |-> n]

\* position of the closing quote of a string whose text starts at i (0: none);
\* the strings of the model carry no escapes
RECURSIVE ClosingQuote(_, _)
ClosingQuote(s, i) ==
    IF i > Len(s) THEN 0
    ELSE IF s[i] = "\"" THEN i
    ELSE IF s[i] = "\\" \/ s[i] = "\n" THEN 0
    ELSE ClosingQuote(s, i + 1)
ParseString(s, i) ==
    LET j == ClosingQuote(s, i + 1)
    IN IF j = 0 THEN ParseFail ELSE ParseOk(JStr(SubSeq(s, i + 1, j - 1)), j + 1)

\* an unsigned integer starting at i (the numbers of the model are
\* non-negative integers; a leading zero ends the number)
RECURSIVE ParseDigits(_, _, _)
ParseDigits(s, i, acc) ==
    IF i <= Len(s) /\ IsDigit(s[i])
    THEN ParseDigits(s, i + 1, acc * 10 + DigitValue(s[i]))
    ELSE ParseOk(JNum(acc), i)

w_null == <<"n", "u", "l", "l">>
w_true == <<"t", "r", "u", "e">>
w_false == <<"f", "a", "l", "s", "e">>

RECURSIVE ParseValue(_, _)
RECURSIVE ParseElements(_, _, _, _)
RECURSIVE ParseMembers(_, _, _, _)
\* a JSON value starting at or after position i
ParseValue(s, i) ==
    LET k == SkipWs(s, i)
    IN IF k > Len(s) THEN ParseFail
       ELSE IF s[k] = "{" THEN ParseMembers(s, k + 1, EmptyDict.v, TRUE)
       ELSE IF s[k] = "[" THEN ParseElements(s, k + 1, <<>>, TRUE)
       ELSE IF s[k] = "\"" THEN ParseString(s, k)
       ELSE IF s[k] = "0" THEN ParseOk(JNum(0), k + 1)
       ELSE IF IsDigit(s[k]) THEN ParseDigits(s, k, 0)
       ELSE IF StartsAt(w_null, s, k) THEN ParseOk(JNull, k + 4)
       ELSE IF StartsAt(w_true, s, k) THEN ParseOk(JBool(TRUE), k + 4)
       ELSE IF StartsAt(w_false, s, k) THEN ParseOk(JBool(FALSE), k + 5)
       ELSE ParseFail
\* the elements of an array after its "[" (first: none read yet)
ParseElements(s, i, acc, first) ==
    LET k == SkipWs(s, i)
    IN IF k > Len(s) THEN ParseFail
       ELSE IF first /\ s[k] = "]" THEN ParseOk(JList(acc), k + 1)
       ELSE LET r == ParseValue(s, k)
                k2 == SkipWs(s, r.n)
            IN IF ~r.ok \/ k2 > Len(s) THEN ParseFail
               ELSE IF s[k2] = "," THEN ParseElements(s, k2 + 1, Append(acc, r.v), FALSE)
               ELSE IF s[k2] = "]" THEN ParseOk(JList(Append(acc, r.v)), k2 + 1)
               ELSE ParseFail
\* the members of an object after its "{"; a repeated key keeps the last value
ParseMembers(s, i, acc, first) ==
    LET k == SkipWs(s, i)
    IN IF k > Len(s) THEN ParseFail
       ELSE IF first /\ s[k] = "}" THEN ParseOk(JDict(acc), k + 1)
       ELSE IF s[k] # "\"" THEN ParseFail
       ELSE LET key == ParseString(s, k)
                c == SkipWs(s, key.n)
            IN IF ~key.ok \/ c > Len(s) THEN ParseFail
               ELSE IF s[c] # ":" THEN ParseFail
               ELSE LET r == ParseValue(s, c + 1)
                        k2 == SkipWs(s, r.n)
                        acc2 == (key.v.v :> r.v) @@ acc
                    IN IF ~r.ok \/ k2 > Len(s) THEN ParseFail
                       ELSE IF s[k2] = "," THEN ParseMembers(s, k2 + 1, acc2, FALSE)
                       ELSE IF s[k2] = "}" THEN ParseOk(JDict(acc2), k2 + 1)
                       ELSE ParseFail

\* json.loads(s): the value, when s is one JSON document and nothing else
json_loads(s) ==
    LET r == ParseValue(s, 1)
    IN IF r.ok /\ SkipWs(s, r.n) > Len(s) THEN r ELSE ParseFail

\* ---- llm_providers.py: _coerce_json ------------------------------------------------
\* re.sub(r"^<fence>(?:json)?", "", s); the fence, three backquotes, is written
\* "~~~" in this module, since a TLA+ string cannot hold a backquote
StripFenceStart(s) ==
    IF StartsWith(s, f_fence \o f_json) THEN SubSeq(s, Len(f_fence \o f_json) + 1, Len(s))
    ELSE IF StartsWith(s, f_fence) THEN SubSeq(s, Len(f_fence) + 1, Len(s))
    ELSE s
\* re.sub(r"<fence>$", "", s) on a stripped s
StripFenceEnd(s) ==
    IF EndsWith(s, f_fence) THEN SubSeq(s, 1, Len(s) - Len(f_fence)) ELSE s
\* re.search(r"\{.*\}", s, flags=re.S): from the first "{" to the last "}"
\* after it; s itself when there is no match
BraceRegion(s) ==
    LET opens == {i \in 1..Len(s) : s[i] = "{"}
        first == CHOOSE i \in opens : \A j \in opens : i <= j
        closes == {i \in 1..Len(s) : s[i] = "}" /\ i > first}
        last == CHOOSE i \in closes : \A j \in closes : i >= j
    IN IF opens = {} THEN s
       ELSE IF closes = {} THEN s
       ELSE SubSeq(s, first, last)

\* the text _coerce_json hands to json.loads
CoercedText(text) ==
    LET s0 == Strip(text)
        s1 == IF StartsWith(s0, f_fence)
              THEN Strip(StripFenceEnd(Strip(StripFenceStart(s0))))
              ELSE s0
    IN IF StartsWith(s1, <<"{">>) THEN s1 ELSE BraceRegion(s1)

\* _coerce_json(text): ok and the parsed value, or not ok for the
\* ProviderError raised on a JSONDecodeError
coerce_json(text) == json_loads(CoercedText(text))

\* ---- llm_providers.py: the provider adapters ------------------------------------
PLAN_MAX == 30
ERROR_EXCERPT == 200
HTTP_ERROR_FROM == 400
KEY_MIN_LEN == 20

\* The adapter a provider name selects (lines 145-154); "" for none.
Adapter(provider) ==
    LET p == Lower(provider)
    IN IF p = p_openai THEN "openai"
       ELSE IF p = p_anthropic THEN "anthropic"
       ELSE IF p \in {p_google, p_gemini, p_google_gemini} THEN "gemini"
       ELSE IF p = p_aipipe THEN "aipipe"
       ELSE ""

\* The HTTP request an adapter posts: the URL and the header carrying the
\* credential (none for Gemini, whose URL carries it).
HttpRequest(adapter, api_key) ==
    IF adapter = "openai"
    THEN [adapter |-> adapter, host |-> u_openai_host, path |-> u_openai_path,
          auth |-> a_bearer \o api_key]
    ELSE IF adapter = "aipipe"
    THEN [adapter |-> adapter, host |-> u_aipipe_host, path |-> u_aipipe_path,
          auth |-> a_bearer \o api_key]
    ELSE IF adapter = "anthropic"
    THEN [adapter |-> adapter, host |-> u_anthropic_host, path |-> u_anthropic_path,
          auth |-> api_key]
    ELSE [adapter |-> adapter, host |-> u_gemini_host, path |-> u_gemini_path \o api_key,
          auth |-> <<>>]

ApiErrorPrefix(adapter) ==
    IF adapter = "openai" THEN m_openai_api_error
    ELSE IF adapter = "aipipe" THEN m_aipipe_api_error
    ELSE IF adapter = "anthropic" THEN m_anthropic_api_error
    ELSE m_gemini_api_error
MissingContent(adapter) ==
    IF adapter = "openai" THEN m_openai_missing
    ELSE IF adapter = "aipipe" THEN m_aipipe_missing
    ELSE IF adapter = "anthropic" THEN m_anthropic_missing
    ELSE m_gemini_missing

\* What a call ends with: a value (kind "ok"), a ProviderError (kind
\* "provider_error") or any other exception (kind "exception"), the latter two
\* with str(e) in msg. 'data' keeps the payload _coerce_json returned.
Returned(v) == [kind |-> "ok", msg |-> <<>>, value |-> v, data |-> JNull]
ProviderError(msg) == [kind |-> "provider_error", msg |-> msg, value |-> JNull, data |-> JNull]
OtherException(msg) == [kind |-> "exception", msg |-> msg, value |-> JNull, data |-> JNull]

\* _post_openai / _post_aipipe / _post_anthropic / _post_gemini from
\* requests.post on: 'http' is what the network did. requests.post raises on a
\* connection failure (the text names the URL's path and query) or a timeout;
\* r.json() raises when the body is no JSON.
post(req, http) ==
    IF http.kind = "connect_error" THEN OtherException(e_max_retries \o req.path)
    ELSE IF http.kind = "read_timeout" THEN OtherException(e_read_timeout)
    ELSE IF http.status >= HTTP_ERROR_FROM
    THEN ProviderError(ApiErrorPrefix(req.adapter) \o IntToStr(http.status) \o m_colon
                       \o Take(http.text, ERROR_EXCERPT))
    ELSE IF ~http.json_ok THEN OtherException(e_expecting_value)
    ELSE IF ~http.has_content THEN ProviderError(MissingContent(req.adapter))
    ELSE Returned(JStr(http.content))

\* _validate_api_key_like(s): TRUE when it raises its ProviderError
bad_substrings == <<bad_space, bad_http, bad_bearer, bad_provider_lower, bad_elif>>
validate_api_key_like_raises(s) ==
    \/ Len(s) = 0
    \/ \E x \in 1..Len(bad_substrings) : Contains(bad_substrings[x], s)
    \/ Len(s) < KEY_MIN_LEN

\* lines 161-169 on one entry
with_notes(s, include_notes) ==
    IF include_notes /\ ~HasKey(s, k_notes)
    THEN JDict((k_notes :> JStr(<<>>)) @@ s.v)
    ELSE s
with_layout_hint(s) ==
    IF Falsy(Get(s, k_layout_hint, JNull))
    THEN JDict((k_layout_hint :> JStr(h_title_and_content)) @@ s.v)
    ELSE s

\* A plausible slip: the clamp off by one.
clamp_one_short(slides) == Take(slides, PLAN_MAX - 1)
\* slides = slides[:30]
clamp(slides) == Take(slides, PLAN_MAX)

\* lines 156-169: from the completion text to the plan
plan_from_raw(raw, include_notes) ==
    LET parsed == coerce_json(raw)
        data == parsed.v
        slides == OrElse(Get(data, k_slides, JNull), JList(<<>>))
        kept == clamp(slides.v)
    IN IF ~parsed.ok THEN ProviderError(m_non_json \o e_expecting_value)
       ELSE IF data.t # "dict"
            THEN [OtherException(e_no_attribute) EXCEPT !.data = data]
       ELSE IF slides.t # "list" \/ Len(slides.v) = 0
            THEN [ProviderError(m_no_slides) EXCEPT !.data = data]
       ELSE IF \E i \in 1..Len(kept) : kept[i].t # "dict"
            THEN [OtherException(IF include_notes THEN e_type_error ELSE e_no_attribute)
                     EXCEPT !.data = data]
       ELSE [Returned(JList([i \in 1..Len(kept) |->
                               with_layout_hint(with_notes(kept[i], include_notes))]))
                EXCEPT !.data = data]

\* plan_slides_via_llm from the adapter's return on
plan_after_http(req, http, include_notes) ==
    LET posted == post(req, http)
    IN IF posted.kind # "ok" THEN posted
       ELSE plan_from_raw(posted.value.v, include_notes)

\* ---- app.py: upload validation ------------------------------------------------
UPLOAD_EXTENSIONS == {x_pptx, x_potx}

SeqToSet(s) == {s[i] : i \in 1..Len(s)}
\* characters werkzeug's secure_filename keeps: [A-Za-z0-9_.-]
FilenameChars == SeqToSet(UpperCase) \cup SeqToSet(LowerCase) \cup SeqToSet(Digits)
                    \cup {"_", ".", "-"}

\* filename.replace("/", " ")
ReplaceSeparators(s) == [i \in 1..Len(s) |-> IF s[i] = "/" THEN " " ELSE s[i]]
\* "_".join(s.split()): the words of s joined by "_" (pending: whitespace was
\* seen since the last character written; any: a character was written)
RECURSIVE JoinWords(_, _, _, _)
JoinWords(s, i, pending, any) ==
    IF i > Len(s) THEN <<>>
    ELSE IF s[i] \in Whitespace THEN JoinWords(s, i + 1, TRUE, any)
    ELSE (IF pending /\ any THEN <<"_", s[i]>> ELSE <<s[i]>>)
         \o JoinWords(s, i + 1, FALSE, TRUE)
IsFilenameChar(c) == c \in FilenameChars
\* s.strip("._")
RECURSIVE SkipDots(_, _)
SkipDots(s, i) == IF i <= Len(s) /\ s[i] \in {".", "_"} THEN SkipDots(s, i + 1) ELSE i
RECURSIVE SkipDotsBack(_, _)
SkipDotsBack(s, i) == IF i >= 1 /\ s[i] \in {".", "_"} THEN SkipDotsBack(s, i - 1) ELSE i
StripDots(s) == SubSeq(s, SkipDots(s, 1), SkipDotsBack(s, Len(s)))

\* werkzeug.utils.secure_filename(filename), for ASCII names
secure_filename(filename) ==
    StripDots(SelectSeq(JoinWords(ReplaceSeparators(filename), 1, FALSE, FALSE),
                        IsFilenameChar))

\* os.path.splitext(p)[1] for a name without separators: from the last dot
\* on, unless only dots precede it
splitext_ext(p) ==
    LET dots == {i \in 1..Len(p) : p[i] = "."}
        last == CHOOSE i \in dots : \A j \in dots : i >= j
    IN IF dots = {} THEN <<>>
       ELSE IF \A j \in 1..(last - 1) : p[j] = "." THEN <<>>
       ELSE SubSeq(p, last, Len(p))

\* ext = os.path.splitext(secure_filename(f.filename))[1].lower()
upload_ext(filename) == Lower(splitext_ext(secure_filename(filename)))

\* A plausible slip: the extension check left out of the validation.
generate_validation_error_without_ext_check(form, upload) ==
    IF Len(Strip(form.inputText)) = 0 THEN m_input_required
    ELSE IF Len(Strip(form.apiKey)) = 0 THEN m_key_required
    ELSE IF ~upload.present \/ Len(upload.filename) = 0 THEN m_upload_required
    ELSE <<>>

\* lines 38-49 of generate: the message of the 400 response the validation ends
\* with, the empty string when it passes
generate_validation_error(form, upload) ==
    IF Len(Strip(form.inputText)) = 0 THEN m_input_required
    ELSE IF Len(Strip(form.apiKey)) = 0 THEN m_key_required
    ELSE IF ~upload.present \/ Len(upload.filename) = 0 THEN m_upload_required
    ELSE IF upload_ext(upload.filename) \notin UPLOAD_EXTENSIONS THEN m_bad_extension
    ELSE <<>>

\* lines 95-98 of preview
preview_validation_error(form) ==
    IF Len(Strip(form.inputText)) = 0 THEN m_input_required
    ELSE IF Len(Strip(form.apiKey)) = 0 THEN m_key_required
    ELSE <<>>

\* jsonify({"ok": False, "error": msg}), status
ErrorResponse(status, msg) ==
    [status |-> status, ok |-> FALSE, error |-> msg, body |-> "error", slides |-> <<>>]
\* jsonify({"ok": True, "slides": slide_plan})
PreviewResponse(slide_plan) ==
    [status |-> 200, ok |-> TRUE, error |-> <<>>, body |-> "plan", slides |-> slide_plan]
\* send_file(io.BytesIO(out_pptx), ...): the document's slides
FileResponse(slides) ==
    [status |-> 200, ok |-> TRUE, error |-> <<>>, body |-> "document", slides |-> slides]
NoResponse ==
    [status |-> 0, ok |-> FALSE, error |-> <<>>, body |-> "none", slides |-> <<>>]

\* ---- inputs of the deck builder -----------------------------------------------
MaxPlan == 3
MaxLayouts == 3

Alphabet == <<"a", "b", "c">>
\* a string of n characters
Chars(n) == [i \in 1..n |-> Alphabet[(i % 3) + 1]]
\* the j-th bullet of a generated entry (bullets differ in length, so in text)
BulletText(j) == <<"#">> \o Chars(j)
BulletList(n) == JList([j \in 1..n |-> JStr(BulletText(j))])

Layout(name, types) == [name |-> name, placeholders |-> types]
L_TitleSlide ==
    Layout(n_TitleSlide, <<"CENTER_TITLE", "SUBTITLE", "DATE", "FOOTER", "SLIDE_NUMBER">>)
L_TitleAndContent ==
    Layout(n_TitleAndContent, <<"TITLE", "OBJECT", "DATE", "FOOTER", "SLIDE_NUMBER">>)
L_SectionHeader == Layout(n_SectionHeader, <<"TITLE", "BODY">>)
L_TitleOnly == Layout(n_TitleOnly, <<"TITLE">>)
L_Blank == Layout(n_Blank, <<>>)
L_ContentWithCaption == Layout(n_ContentWithCaption, <<"TITLE", "OBJECT", "BODY">>)
L_Quote == Layout(n_Quote, <<"BODY", "SUBTITLE">>)
L_PictureWithCaption == Layout(n_PictureWithCaption, <<"PICTURE", "BODY">>)

\* The slide layouts of the templates a request may upload.
TemplateLayouts ==
    << <<L_TitleSlide, L_TitleAndContent, L_SectionHeader, L_TitleOnly, L_Blank>>,
       <<L_ContentWithCaption, L_Quote, L_PictureWithCaption>>,
       <<L_Blank>>,
       <<>> >>

\* A slide that came with the template: rId is its relationship id.
TemplateSlide(rId, shapes) ==
    [rId |-> rId, entry |-> -1, layout |-> 0, shapes |-> shapes, notes |-> <<>>]
\* The slides the uploaded file already holds (a .potx typically none); picture
\* 0 is a linked picture without an embedded image.
TemplateDecks ==
    << <<>>,
       <<TemplateSlide(1, <<NewPlaceholder("TITLE")>>)>>,
       <<TemplateSlide(1, <<NewPlaceholder("TITLE"), NewPicture(1, 10)>>),
         TemplateSlide(2, <<NewPicture(0, 10), NewPicture(2, 30)>>)>>,
       <<TemplateSlide(1, <<NewPicture(3, 10)>>),
         TemplateSlide(2, <<NewPlaceholder("BODY")>>),
         TemplateSlide(3, <<NewPicture(1, 10)>>)>> >>

\* Slide descriptors as the planner hands them on: JSON objects, not
\* validated beyond what plan_slides_via_llm does.
E_Long ==
    JDict((k_title :> JStr(Chars(TITLE_MAX + 1))) @@
          (k_bullets :> JList(BulletList(BULLETS_MAX).v
                              \o <<JStr(Chars(LONG_BULLET + 1))>>)) @@
          (k_layout_hint :> JStr(h_title_and_content)) @@
          (k_notes :> JStr(<<"n">>)))
E_Exact ==
    JDict((k_title :> JStr(Chars(TITLE_MAX))) @@
          (k_bullets :> BulletList(BULLETS_MAX)) @@
          (k_layout_hint :> JStr(h_quote)) @@
          (k_notes :> JStr(<<>>)))
E_Short ==
    JDict((k_title :> JStr(<<"T">>)) @@
          (k_bullets :> BulletList(2)) @@
          (k_layout_hint :> JStr(h_section_header)))
E_Empty == EmptyDict
\* ill-typed but built: a bullet that is a number, a title that is a list
E_IllTyped ==
    JDict((k_title :> JList(<<JStr(<<"T">>)>>)) @@
          (k_bullets :> JList(<<JStr(BulletText(1)), JNum(42), JStr(BulletText(3))>>)) @@
          (k_layout_hint :> JNull) @@
          (k_notes :> JNum(7)))
\* an entry that is no object: build_presentation raises on it
E_NotDict == JStr(<<"x">>)

Entries == <<E_Long, E_Exact, E_Short, E_Empty, E_IllTyped, E_NotDict>>

\* Plans long enough for the image cadence to come round (plan index 3): an
\* entry of three bullets, one of two, one of none.
MaxImagePlan == 4
E_Three ==
    JDict((k_title :> JStr(<<"T">>)) @@ (k_bullets :> BulletList(FEW_BULLETS + 1)))
ImageEntries == <<E_Three, E_Short, E_Empty>>

\* all sequences over 1..n of length at most m
SeqsUpTo(n, m) == UNION {[1..k -> 1..n] : k \in 0..m}

\* Layout names a template may carry (the empty name for a layout without one).
LayoutNamePool ==
    <<n_TitleSlide, n_TitleAndContent, n_TitleOnly, n_UpperTitleOnly, n_Blank,
      n_TwoContent, n_Comparison, n_Subtitled, <<>> >>
\* Layout hints a descriptor may carry.
HintPool ==
    <<JStr(h_title_and_content), JStr(h_title_only), JStr(h_section_header),
      JStr(h_two_content), JStr(h_quote), JStr(h_comparison), JStr(h_timeline),
      JStr(h_process), JStr(h_overview), JStr(h_summary), JStr(h_unknown),
      JStr(<<>>), JNull>>

\* ---- inputs of the request handlers ---------------------------------------------
MaxOver == 1

\* Form fields as the client sends them (before .strip()).
InputTexts == <<txt_roadmap, txt_blank, <<>> >>
ApiKeys == <<key_good, key_short, key_bearer, key_http, key_blank>>
Providers == <<in_openai, in_anthropic, in_gemini, in_google, in_aipipe, in_cohere>>

\* What the uploaded file holds: a presentation with its layouts and slides,
\* or bytes Presentation() cannot read.
Readable(layouts, slides) == [readable |-> TRUE, layouts |-> layouts, slides |-> slides]
Unreadable == [readable |-> FALSE, layouts |-> <<>>, slides |-> <<>>]
Upload(filename, content) == [present |-> TRUE, filename |-> filename, content |-> content]
NoUpload == [present |-> FALSE, filename |-> <<>>, content |-> Unreadable]
Uploads ==
    << NoUpload,
       Upload(<<>>, Readable(TemplateLayouts[1], TemplateDecks[1])),
       Upload(fn_deck_pptx, Readable(TemplateLayouts[1], TemplateDecks[3])),
       Upload(fn_deck_txt, Readable(TemplateLayouts[1], TemplateDecks[3])),
       Upload(fn_Deck_PPTX, Readable(TemplateLayouts[2], TemplateDecks[2])),
       Upload(fn_theme_potx, Readable(TemplateLayouts[1], TemplateDecks[1])),
       Upload(fn_dot_pptx, Readable(TemplateLayouts[1], TemplateDecks[1])),
       Upload(fn_deck_pptx_dot, Readable(TemplateLayouts[4], TemplateDecks[2])),
       Upload(fn_my_deck_pptx, Unreadable),
       Upload(fn_deck, Readable(TemplateLayouts[1], TemplateDecks[1])) >>

\* A completion holding n slide descriptors, numbered in their titles; the
\* descriptors differ in the keys they carry.
EntryText(i) ==
    t_entry_open \o IntToStr(i) \o
        (IF i % 4 = 0 THEN t_entry_plain
         ELSE IF i % 4 = 1 THEN t_entry_full
         ELSE IF i % 4 = 2 THEN t_entry_empty_hint
         ELSE t_entry_nulls)
RECURSIVE EntriesText(_, _)
EntriesText(i, n) ==
    IF i > n THEN <<>>
    ELSE EntryText(i) \o (IF i < n THEN t_comma ELSE <<>>) \o EntriesText(i + 1, n)
SlidesPayload(n) == t_open \o EntriesText(1, n) \o t_close

\* Completions a provider may return.
Completions ==
    <<c_empty_slides, c_two_slides, c_fenced, c_prose, c_array, c_null, c_string,
      c_number, c_slides_string, c_slides_object, c_no_slides_key, c_not_json,
      c_entry_not_object, c_wrapped_in_array>>
    \o [k \in 1..(MaxOver + 2) |-> SlidesPayload(PLAN_MAX - 2 + k)]

\* What the network does with a posted request.
HttpFailure(kind) ==
    [kind |-> kind, status |-> 0, text |-> <<>>, json_ok |-> FALSE,
     has_content |-> FALSE, content |-> <<>>]
HttpResponse(status, text, json_ok, has_content, content) ==
    [kind |-> "response", status |-> status, text |-> text, json_ok |-> json_ok,
     has_content |-> has_content, content |-> content]
HttpOutcomes ==
    <<HttpFailure("connect_error"), HttpFailure("read_timeout"),
      HttpResponse(401, body_bad_key, TRUE, FALSE, <<>>),
      HttpResponse(500, Chars(ERROR_EXCERPT + 1), FALSE, FALSE, <<>>),
      HttpResponse(200, c_not_json, FALSE, FALSE, <<>>),
      HttpResponse(200, <<"{", "}">>, TRUE, FALSE, <<>>)>>
    \o [c \in 1..Len(Completions) |-> HttpResponse(200, <<>>, TRUE, TRUE, Completions[c])]

\* ---- state ----------------------------------------------------------------------
VARIABLES
    \* _find_layout_index on its own
    l_names,            \* names of prs.slide_layouts
    l_hint,             \* the layout_hint argument
    l_index,            \* the returned index (-1 before the call)
    l_pc,
    \* build_presentation
    template,           \* [layouts, slides]: the uploaded file (template_bytes)
    prs,                \* [layouts, slides]: the opened presentation
    template_images,    \* the harvested, shuffled image pool
    slides_plan,        \* the slides_plan argument
    idx,                \* position of the loop over slides_plan
    b_pc,               \* "open", "loop", "saved", "raised"; "idle" outside a build
    \* a request to /generate or /preview
    endpoint,           \* "generate" or "preview"
    form,               \* request.form: inputText, apiKey, provider, includeNotes
    upload,             \* request.files["templateFile"]
    r_pc,               \* "received", "validated", "http", "planned", "responded"
    http_calls,         \* the HTTP requests posted to the provider, in order
    http_response,      \* what requests.post came back with
    plan_result,        \* what plan_slides_via_llm ended with
    build_calls,        \* number of calls of build_presentation
    response,           \* the response returned to the client
    \* the installed python-pptx
    pp_content          \* whether its PP_PLACEHOLDER has a member CONTENT

layoutVars == <<l_names, l_hint, l_index, l_pc>>
buildVars == <<template, prs, template_images, slides_plan, idx, b_pc>>
requestVars == <<endpoint, form, upload, r_pc, http_calls, http_response, plan_result, build_calls,
                 response>>
libVars == <<pp_content>>
vars == <<layoutVars, buildVars, requestVars, libVars>>

LayoutIdle ==
    /\ l_names = <<>>
    /\ l_hint = JNull
    /\ l_index = -1
    /\ l_pc = "idle"
BuildIdle ==
    /\ template = Unreadable
    /\ prs = [layouts |-> <<>>, slides |-> <<>>]
    /\ template_images = <<>>
    /\ slides_plan = <<>>
    /\ idx = 0
    /\ b_pc = "idle"

NoResult == [kind |-> "none", msg |-> <<>>, value |-> JNull, data |-> JNull]
RequestIdle ==
    /\ endpoint = "none"
    /\ form = [inputText |-> <<>>, apiKey |-> <<>>, provider |-> <<>>,
               includeNotes |-> FALSE]
    /\ upload = NoUpload
    /\ r_pc = "idle"
    /\ http_calls = <<>>
    /\ http_response = HttpFailure("none")
    /\ plan_result = NoResult
    /\ build_calls = 0
    /\ response = NoResponse

\* ---- _find_layout_index, called on any template and hint ----------------------
InitLayout ==
    /\ \E s \in SeqsUpTo(Len(LayoutNamePool), MaxLayouts) :
          l_names = [i \in 1..Len(s) |-> LayoutNamePool[s[i]]]
    /\ \E h \in 1..Len(HintPool) : l_hint = HintPool[h]
    /\ l_index = -1
    /\ l_pc = "call"
    /\ BuildIdle
    /\ RequestIdle
    /\ pp_content = TRUE

FindLayout ==
    /\ l_pc = "call"
    /\ l_index' = find_layout_index(l_names, l_hint)
    /\ l_pc' = "done"
    /\ UNCHANGED <<l_names, l_hint, buildVars, requestVars, libVars>>

NextLayout == FindLayout
SpecLayout == InitLayout /\ [][NextLayout]_vars

\* ---- build_presentation, called on any template and plan ----------------------
InitBuild ==
    /\ \/ \E t \in 1..Len(TemplateLayouts), d \in 1..Len(TemplateDecks) :
             template = Readable(TemplateLayouts[t], TemplateDecks[d])
       \/ template = Unreadable
    /\ prs = [layouts |-> <<>>, slides |-> <<>>]
    /\ \E s \in SeqsUpTo(Len(Entries), MaxPlan) :
          slides_plan = [i \in 1..Len(s) |-> Entries[s[i]]]
    /\ template_images = <<>>
    /\ idx = 0
    /\ b_pc = "open"
    /\ pp_content \in BOOLEAN
    /\ LayoutIdle
    /\ RequestIdle

\* lines 134-138: open, harvest and shuffle the images, purge the slides
BuildOpen ==
    /\ b_pc = "open"
    /\ IF template.readable
       THEN /\ template_images' \in Shuffles(CollectImages(template.slides))
            /\ prs' = [layouts |-> template.layouts,
                       slides |-> purge_all_existing_slides(template.slides)]
            /\ b_pc' = "loop"
       ELSE /\ b_pc' = "raised"
            /\ UNCHANGED <<prs, template_images>>
    /\ UNCHANGED <<template, slides_plan, idx, layoutVars, requestVars, libVars>>

\* lines 141-184: one iteration of the loop
BuildNextSlide ==
    /\ b_pc = "loop"
    /\ idx < Len(slides_plan)
    /\ IF SlideRaises(prs.layouts, slides_plan[idx + 1], pp_content)
       THEN /\ b_pc' = "raised"
            /\ UNCHANGED <<prs, idx>>
       ELSE /\ prs' = [prs EXCEPT !.slides =
                          Append(@, BuildSlide(prs.layouts, template_images, idx,
                                               slides_plan[idx + 1]))]
            /\ idx' = idx + 1
            /\ b_pc' = "loop"
    /\ UNCHANGED <<template, template_images, slides_plan, layoutVars, requestVars, libVars>>

\* lines 186-188: save and return
BuildSave ==
    /\ b_pc = "loop"
    /\ idx = Len(slides_plan)
    /\ b_pc' = "saved"
    /\ UNCHANGED <<template, prs, template_images, slides_plan, idx, layoutVars, requestVars, libVars>>

NextBuild == BuildOpen \/ BuildNextSlide \/ BuildSave
SpecBuild == InitBuild /\ [][NextBuild]_vars

\* ---- build_presentation on plans of up to MaxImagePlan entries ------------------
InitImages ==
    /\ \/ \E t \in 1..Len(TemplateLayouts), d \in 1..Len(TemplateDecks) :
             template = Readable(TemplateLayouts[t], TemplateDecks[d])
       \/ template = Unreadable
    /\ prs = [layouts |-> <<>>, slides |-> <<>>]
    /\ \E s \in SeqsUpTo(Len(ImageEntries), MaxImagePlan) :
          slides_plan = [i \in 1..Len(s) |-> ImageEntries[s[i]]]
    /\ template_images = <<>>
    /\ idx = 0
    /\ b_pc = "open"
    /\ pp_content \in BOOLEAN
    /\ LayoutIdle
    /\ RequestIdle

SpecImages == InitImages /\ [][NextBuild]_vars

\* ---- the request handlers ---------------------------------------------------------
InitRequest ==
    /\ \E t \in 1..Len(InputTexts), k \in 1..Len(ApiKeys), p \in 1..Len(Providers),
          n \in BOOLEAN :
          form = [inputText |-> InputTexts[t], apiKey |-> ApiKeys[k],
                  provider |-> Providers[p], includeNotes |-> n]
    /\ \/ /\ endpoint = "generate"
          /\ \E u \in 1..Len(Uploads) : upload = Uploads[u]
       \/ /\ endpoint = "preview"
          /\ upload = NoUpload
    /\ r_pc = "received"
    /\ http_calls = <<>>
    /\ http_response = HttpFailure("none")
    /\ plan_result = NoResult
    /\ build_calls = 0
    /\ response = NoResponse
    /\ pp_content \in BOOLEAN
    /\ LayoutIdle
    /\ BuildIdle

\* generate, lines 31-50: read the form, validate it and the upload
GenerateValidate ==
    /\ endpoint = "generate"
    /\ r_pc = "received"
    /\ LET err == generate_validation_error(form, upload)
       IN IF Len(err) > 0
          THEN /\ response' = ErrorResponse(400, err)
               /\ r_pc' = "responded"
          ELSE /\ r_pc' = "validated"
               /\ UNCHANGED response
    /\ UNCHANGED <<endpoint, form, upload, http_calls, http_response, plan_result,
                   build_calls, layoutVars, buildVars, libVars>>

\* preview, lines 89-98
PreviewValidate ==
    /\ endpoint = "preview"
    /\ r_pc = "received"
    /\ LET err == preview_validation_error(form)
       IN IF Len(err) > 0
          THEN /\ response' = ErrorResponse(400, err)
               /\ r_pc' = "responded"
          ELSE /\ r_pc' = "validated"
               /\ UNCHANGED response
    /\ UNCHANGED <<endpoint, form, upload, http_calls, http_response, plan_result,
                   build_calls, layoutVars, buildVars, libVars>>

\* The response a handler makes of a failed plan_slides_via_llm: generate
\* lines 62-65, preview lines 109-112.
PlanFailureResponse(ep, res) ==
    IF res.kind = "provider_error"
    THEN ErrorResponse(400, m_llm_provider_error \o res.msg)
    ELSE IF ep = "generate"
    THEN ErrorResponse(500, m_failed_plan \o res.msg)
    ELSE ErrorResponse(500, m_unexpected \o res.msg)

\* plan_slides_via_llm, lines 144-154, up to requests.post: an unsupported
\* provider raises, any other has its adapter post the request
CallProvider ==
    /\ r_pc = "validated"
    /\ LET adapter == Adapter(Strip(form.provider))
           res == ProviderError(m_unsupported \o Strip(form.provider))
       IN IF adapter = ""
          THEN /\ plan_result' = res
               /\ response' = PlanFailureResponse(endpoint, res)
               /\ r_pc' = "responded"
               /\ UNCHANGED http_calls
          ELSE /\ http_calls' = Append(http_calls, HttpRequest(adapter, Strip(form.apiKey)))
               /\ r_pc' = "http"
               /\ UNCHANGED <<plan_result, response>>
    /\ UNCHANGED <<endpoint, form, upload, http_response, build_calls, layoutVars,
                   buildVars, libVars>>

\* requests.post returns or raises; the rest of plan_slides_via_llm runs and
\* the handler takes its result (generate lines 53-65, preview lines 100-112)
ProviderReturns ==
    /\ r_pc = "http"
    /\ \E h \in 1..Len(HttpOutcomes) :
          LET res == plan_after_http(http_calls[Len(http_calls)], HttpOutcomes[h],
                                     form.includeNotes)
          IN /\ http_response' = HttpOutcomes[h]
             /\ plan_result' = res
             /\ IF res.kind # "ok"
                THEN /\ response' = PlanFailureResponse(endpoint, res)
                     /\ r_pc' = "responded"
                ELSE IF endpoint = "preview"
                THEN /\ response' = PreviewResponse(res.value.v)
                     /\ r_pc' = "responded"
                ELSE /\ r_pc' = "planned"
                     /\ UNCHANGED response
    /\ UNCHANGED <<endpoint, form, upload, http_calls, build_calls, layoutVars, buildVars, libVars>>

\* generate, lines 67-81: build the deck and send it
GenerateBuild ==
    /\ endpoint = "generate"
    /\ r_pc = "planned"
    /\ build_calls' = build_calls + 1
    /\ \E images \in Shuffles(CollectImages(upload.content.slides)) :
          LET out == build_presentation(upload.content, images, plan_result.value.v,
                                            pp_content)
          IN response' = IF ~upload.content.readable \/ out.raised
                         THEN ErrorResponse(500, m_failed_build \o e_build)
                         ELSE FileResponse(out.slides)
    /\ r_pc' = "responded"
    /\ UNCHANGED <<endpoint, form, upload, http_calls, http_response, plan_result,
                   layoutVars, buildVars, libVars>>

Next ==
    \/ GenerateValidate
    \/ PreviewValidate
    \/ CallProvider
    \/ ProviderReturns
    \/ GenerateBuild
Init == InitRequest
Spec == Init /\ [][Next]_vars

\* ---- claims about the deck builder ----------------------------------------------
Least(S) == CHOOSE x \in S : \A y \in S : x <= y

\* C9: the layout a hint resolves to, stated by preference order before layout
\* order (0-based index).
C9_Matches(needle, name) == Contains(Lower(needle), Lower(name))
C9_PrefList(hint) ==
    IF hint.t = "str" /\ \E k \in 1..Len(LAYOUT_PREFS) : LAYOUT_PREFS[k][1] = hint.v
    THEN LAYOUT_PREFS[CHOOSE k \in 1..Len(LAYOUT_PREFS) : LAYOUT_PREFS[k][1] = hint.v][2]
    ELSE <<n_TitleAndContent, n_TitleOnly>>
C9_Expected(names, hint) ==
    LET prefs == C9_PrefList(hint)
        matched == {j \in 1..Len(prefs) :
                       \E i \in 1..Len(names) : C9_Matches(prefs[j], names[i])}
        titled == {i \in 1..Len(names) : C9_Matches(n_title, names[i])}
    IN IF matched # {}
       THEN Least({i \in 1..Len(names) : C9_Matches(prefs[Least(matched)], names[i])}) - 1
       ELSE IF titled # {} THEN Least(titled) - 1
       ELSE 0

\* C9: for every template with at least one layout and every layout hint,
\* _find_layout_index returns a valid index: the lowest-index layout whose name
\* contains (ignoring case) the earliest preferred substring that any layout
\* name contains; failing that the lowest-index layout whose name contains
\* "title"; failing that 0. An unknown hint uses the default preference list.
C9_LayoutByPreference ==
    (l_pc = "done" /\ Len(l_names) >= 1) =>
        /\ l_index \in 0..(Len(l_names) - 1)
        /\ l_index = C9_Expected(l_names, l_hint)
\* a call where the first layout matches a later preference but the second
\* layout, matching an earlier one, is returned
C9_Witness ==
    /\ l_pc = "done"
    /\ l_index = 1
    /\ \E j \in 1..Len(C9_PrefList(l_hint)) :
          C9_Matches(C9_PrefList(l_hint)[j], l_names[1])

\* C1: every accepted plan of n entries yields a document of exactly n slides,
\* slide i built from plan entry i, and none of the template's own slides
\* remains.
C1_SlidesFollowPlan ==
    b_pc = "saved" =>
        /\ Len(prs.slides) = Len(slides_plan)
        /\ \A i \in 1..Len(prs.slides) : prs.slides[i].entry = i - 1
        /\ \A i \in 1..Len(prs.slides) : prs.slides[i].entry # -1
\* a template with two or more slides of its own, a plan of two or more entries
C1_Witness ==
    /\ b_pc = "saved"
    /\ Len(template.slides) >= 2
    /\ Len(slides_plan) >= 2
    /\ Len(prs.slides) >= 2

\* The shape a slide's title went to, and the one its bullets went to: the
\* first placeholder of the role, else the fallback textbox at its position.
C2_FallbackBox(slide, top) ==
    CHOOSE i \in 1..Len(slide.shapes) :
        slide.shapes[i].kind = "textbox" /\ slide.shapes[i].top = top
C2_HasFallbackBox(slide, top) ==
    \E i \in 1..Len(slide.shapes) :
        slide.shapes[i].kind = "textbox" /\ slide.shapes[i].top = top
C2_HasPlaceholder(slide, types) ==
    \E i \in 1..Len(slide.shapes) :
        slide.shapes[i].kind = "placeholder" /\ slide.shapes[i].ph_type \in types
C2_FirstPlaceholder(slide, types) ==
    Least({i \in 1..Len(slide.shapes) :
              slide.shapes[i].kind = "placeholder" /\ slide.shapes[i].ph_type \in types})
C2_TitleShape(slide) ==
    IF C2_HasPlaceholder(slide, TitleTypes)
    THEN slide.shapes[C2_FirstPlaceholder(slide, TitleTypes)]
    ELSE slide.shapes[C2_FallbackBox(slide, TITLE_BOX_TOP)]
C2_BodyShape(slide) ==
    IF C2_HasPlaceholder(slide, BodyTypes)
    THEN slide.shapes[C2_FirstPlaceholder(slide, BodyTypes)]
    ELSE slide.shapes[C2_FallbackBox(slide, BODY_BOX_TOP)]
\* the text of a paragraph: its runs' texts joined
RECURSIVE C2_JoinRuns(_)
C2_JoinRuns(runs) ==
    IF runs = <<>> THEN <<>> ELSE Head(runs).text \o C2_JoinRuns(Tail(runs))
\* the lines of a shape: the texts of its paragraphs that carry a run
RECURSIVE C2_Lines(_)
C2_Lines(paragraphs) ==
    IF paragraphs = <<>> THEN <<>>
    ELSE (IF Head(paragraphs).runs = <<>> THEN <<>>
          ELSE <<C2_JoinRuns(Head(paragraphs).runs)>>)
         \o C2_Lines(Tail(paragraphs))
\* a descriptor as the data model has it: title a string (or absent), bullets
\* a list of strings (or absent)
C2_Title(e) == IF HasKey(e, k_title) THEN e.v[k_title].v ELSE <<>>
C2_Bullets(e) == IF HasKey(e, k_bullets) THEN e.v[k_bullets].v ELSE <<>>
C2_IsDescriptor(e) ==
    /\ e.t = "dict"
    /\ HasKey(e, k_title) => e.v[k_title].t = "str"
    /\ HasKey(e, k_bullets) =>
          /\ e.v[k_bullets].t = "list"
          /\ \A j \in 1..Len(e.v[k_bullets].v) : e.v[k_bullets].v[j].t = "str"

\* C2: on every slide the title text is the entry's title cut to its first 200
\* characters, and the body holds at most 12 lines, line j being the entry's
\* bullet j, whether the text went to a placeholder or to a fallback textbox.
C2_TitleAndBulletsWritten ==
    b_pc = "saved" =>
        \A i \in 1..Len(slides_plan) :
            C2_IsDescriptor(slides_plan[i]) =>
                LET e == slides_plan[i]
                    slide == prs.slides[i]
                    lines == C2_Lines(C2_BodyShape(slide).paragraphs)
                IN /\ C2_Lines(C2_TitleShape(slide).paragraphs)
                        = <<SubSeq(C2_Title(e), 1, Min(200, Len(C2_Title(e))))>>
                   /\ Len(lines) <= 12
                   /\ Len(lines) = Min(12, Len(C2_Bullets(e)))
                   /\ \A j \in 1..Len(lines) : lines[j] = C2_Bullets(e)[j].v
\* a slide whose entry has more than 200 title characters and more than 12
\* bullets, the title in a placeholder and the bullets in a fallback textbox
C2_Witness ==
    /\ b_pc = "saved"
    /\ \E i \in 1..Len(slides_plan) :
          /\ C2_IsDescriptor(slides_plan[i])
          /\ Len(C2_Title(slides_plan[i])) > 200
          /\ Len(C2_Bullets(slides_plan[i])) > 12
          /\ C2_HasPlaceholder(prs.slides[i], TitleTypes)
          /\ ~C2_HasPlaceholder(prs.slides[i], BodyTypes)
          /\ C2_HasFallbackBox(prs.slides[i], BODY_BOX_TOP)

\* C10: the body-capable placeholder of a slide as the claim defines it: a
\* placeholder of role body/content or, failing that, the first non-title
\* placeholder that supports text (0: the slide has none).
C10_BodyCapable(slide) ==
    IF C2_HasPlaceholder(slide, BodyTypes)
    THEN C2_FirstPlaceholder(slide, BodyTypes)
    ELSE LET others == {i \in 1..Len(slide.shapes) :
                           /\ slide.shapes[i].kind = "placeholder"
                           /\ slide.shapes[i].ph_type \notin TitleTypes
                           /\ slide.shapes[i].has_text_frame}
         IN IF others = {} THEN 0 ELSE Least(others)
\* C10: the bullets of every new slide are written into its body-capable
\* placeholder whenever it has one; a fallback textbox for the bullets is
\* created only when the slide has no such placeholder at all.
C10_BulletsInBodyCapablePlaceholder ==
    \A i \in 1..Len(prs.slides) :
        LET slide == prs.slides[i]
        IN slide.entry >= 0 =>
              /\ C10_BodyCapable(slide) # 0 =>
                    /\ ~C2_HasFallbackBox(slide, BODY_BOX_TOP)
                    /\ slide.shapes[C10_BodyCapable(slide)].paragraphs
                         = set_bullets(NewTextbox(0), bullets_of(slides_plan[i])).paragraphs
              /\ C10_BodyCapable(slide) = 0 => C2_HasFallbackBox(slide, BODY_BOX_TOP)

\* ---- claims about the planner and the request handlers ----------------------------
\* The completion of the last provider call, when there was one.
GotCompletion ==
    /\ http_response.kind = "response"
    /\ http_response.status < 400
    /\ http_response.json_ok
    /\ http_response.has_content
\* a payload that holds a non-empty list under "slides"
C3_HasSlides(payload) ==
    /\ payload.t = "dict"
    /\ k_slides \in DOMAIN payload.v
    /\ payload.v[k_slides].t = "list"
    /\ Len(payload.v[k_slides].v) > 0
C3_IsPlan(v) == v.t = "list" /\ Len(v.v) > 0

\* C3: a completion that parses as JSON, of any JSON type, and holds no
\* non-empty list under "slides" makes plan_slides_via_llm fail with a
\* ProviderError and no other exception, so that neither build_presentation
\* nor the success response of /preview is reached with an empty or non-list
\* plan.
C3_NoSlidesIsProviderError ==
    /\ \A payload \in {json_loads(Strip(http_response.content))} :
          (GotCompletion /\ payload.ok /\ ~C3_HasSlides(payload.v))
              => plan_result.kind = "provider_error"
    /\ build_calls > 0 => C3_IsPlan(plan_result.value)
    /\ response.body = "plan" => C3_IsPlan(plan_result.value)

\* the reference normalisation of one descriptor; "empty" covers every value
\* Python takes for false (null, "", 0, false, [], {})
C4_Empty(x) ==
    \/ x.t = "null"
    \/ x.t \in {"str", "list"} /\ x.v = <<>>
    \/ x.t = "dict" /\ DOMAIN x.v = {}
    \/ x.t = "bool" /\ ~x.v
    \/ x.t = "num" /\ x.v = 0
C4_NeedsNotes(e, include_notes) == include_notes /\ k_notes \notin DOMAIN e.v
C4_NeedsHint(e) ==
    k_layout_hint \notin DOMAIN e.v \/ C4_Empty(e.v[k_layout_hint])
C4_Normal(e, include_notes) ==
    JDict([k \in DOMAIN e.v
                    \cup (IF C4_NeedsNotes(e, include_notes) THEN {k_notes} ELSE {})
                    \cup {k_layout_hint} |->
              IF k = k_notes /\ C4_NeedsNotes(e, include_notes) THEN JStr(<<>>)
              ELSE IF k = k_layout_hint /\ C4_NeedsHint(e) THEN JStr(h_title_and_content)
              ELSE e.v[k]])

\* C4: when plan_slides_via_llm succeeds on a payload whose slides list has
\* n >= 1 entries, the plan is the first min(n, 30) entries in their order,
\* each unchanged except that an entry lacking notes gets "" when notes were
\* asked for, and an entry whose layout_hint is missing or empty gets
\* title_and_content.
C4_PlanIsNormalisedPrefix ==
    (plan_result.kind = "ok" /\ C3_HasSlides(plan_result.data)) =>
        LET slides == plan_result.data.v[k_slides].v
            plan == plan_result.value.v
        IN /\ Len(plan) = Min(Len(slides), 30)
           /\ \A i \in 1..Len(plan) : plan[i] = C4_Normal(slides[i], form.includeNotes)
\* a plan cut from more than 30 entries, with notes asked for, an entry that
\* lacked notes and an entry whose layout_hint was empty
C4_Witness ==
    /\ plan_result.kind = "ok"
    /\ C3_HasSlides(plan_result.data)
    /\ Len(plan_result.data.v[k_slides].v) > 30
    /\ form.includeNotes
    /\ \E i \in 1..30 : k_notes \notin DOMAIN plan_result.data.v[k_slides].v[i].v
    /\ \E i \in 1..30 :
          /\ k_layout_hint \in DOMAIN plan_result.data.v[k_slides].v[i].v
          /\ C4_Empty(plan_result.data.v[k_slides].v[i].v[k_layout_hint])

\* the validation failures of /generate
C5_InvalidRequest ==
    \/ Strip(form.inputText) = <<>>
    \/ Strip(form.apiKey) = <<>>
    \/ ~upload.present
    \/ upload.filename = <<>>
    \/ upload_ext(upload.filename) \notin {x_pptx, x_potx}
C5_ValidationMessages ==
    {m_input_required, m_key_required, m_upload_required, m_bad_extension}

\* C5: /generate runs validate -> provider call -> build -> respond: a request
\* whose validation fails makes no provider call and ends with a validation
\* error (400); build_presentation is never invoked and no document returned
\* when the provider call failed (a provider HTTP 401 ends as a provider-error
\* response with status 400).
C5_GenerateStepsAreGated ==
    endpoint = "generate" =>
        /\ C5_InvalidRequest =>
              /\ http_calls = <<>>
              /\ build_calls = 0
              /\ r_pc = "responded" =>
                    /\ response.status = 400
                    /\ response.error \in C5_ValidationMessages
        /\ Len(http_calls) <= 1
        /\ build_calls > 0 => (Len(http_calls) = 1 /\ plan_result.kind = "ok")
        /\ plan_result.kind \in {"provider_error", "exception"} =>
              /\ build_calls = 0
              /\ response.body = "error"
        /\ response.body = "document" => (build_calls = 1 /\ plan_result.kind = "ok")
        /\ (http_response.kind = "response" /\ http_response.status = 401) =>
              /\ response.status = 400
              /\ StartsWith(response.error, m_llm_provider_error)
\* a valid request whose provider call came back with HTTP 401
C5_Witness ==
    /\ endpoint = "generate"
    /\ r_pc = "responded"
    /\ ~C5_InvalidRequest
    /\ http_response.kind = "response"
    /\ http_response.status = 401
    /\ response.status = 400
    /\ build_calls = 0

\* C6: when the HTTP call to the provider times out or fails to connect,
\* plan_slides_via_llm fails with a ProviderError and the caller receives the
\* provider-error response (400, "LLM provider error"), not the internal
\* failure response (500).
C6_TransportFailureIsProviderError ==
    http_response.kind \in {"connect_error", "read_timeout"} =>
        /\ plan_result.kind = "provider_error"
        /\ response.status = 400
        /\ StartsWith(response.error, m_llm_provider_error)

\* C7: on every error path of /generate and /preview the message returned to
\* the caller never contains the credential supplied in the request.
C7_ErrorMessageHidesCredential ==
    (response.body = "error" /\ Len(Strip(form.apiKey)) > 0) =>
        ~Contains(Strip(form.apiKey), response.error)

\* C8: a request whose credential has an implausible format (a space, "http",
\* "Bearer " or fewer than 20 characters) is rejected with a provider error by
\* plan_slides_via_llm, and no HTTP call is made with that credential.
C8_ImplausibleKeyIsRejected ==
    validate_api_key_like_raises(Strip(form.apiKey)) =>
        /\ http_calls = <<>>
        /\ (r_pc = "responded" /\ response.error \notin C5_ValidationMessages)
              => plan_result.kind = "provider_error"

\* ---- the claim about reused images ------------------------------------------------
\* the pictures build_presentation inserted into a slide
C11_Pictures(slide) ==
    {i \in 1..Len(slide.shapes) : slide.shapes[i].kind = "picture"}
\* the number of bullets of a plan entry (none when the key is absent or null)
C11_BulletCount(e) ==
    IF HasKey(e, k_bullets) /\ e.v[k_bullets].t = "list"
    THEN Len(e.v[k_bullets].v) ELSE 0
\* the cadence: the pool is non-empty and the index is a multiple of 3 or the
\* entry has two or fewer bullets
C11_Due(P, i, e) == Len(P) > 0 /\ (i % 3 = 0 \/ C11_BulletCount(e) <= 2)
\* the image the cadence assigns to plan index i
C11_Image(P, i) == P[(i % Len(P)) + 1]

\* C11 as stated: with P the harvested pool, the slide at plan index idx
\* receives an inserted image if and only if P is non-empty and (idx mod 3 = 0
\* or the entry has two or fewer bullets); it receives at most one, and the
\* image is P[idx mod |P|]; with an empty pool no slide has an inserted image.
C11_ImageIffCadence ==
    b_pc \in {"loop", "saved"} =>
        \A i \in 1..Len(prs.slides) :
            LET slide == prs.slides[i]
                pics == C11_Pictures(slide)
            IN /\ Cardinality(pics) <= 1
               /\ pics # {} <=> C11_Due(template_images, i - 1, slides_plan[i])
               /\ \A s \in pics :
                     /\ (i - 1) % Len(template_images) \in 0..(Len(template_images) - 1)
                     /\ slide.shapes[s].image = C11_Image(template_images, i - 1)
               /\ template_images = <<>> => pics = {}

\* C11, amended: the slide at plan index idx receives an inserted image if
\* and only if P is non-empty, (idx mod 3 = 0 or the entry has two or fewer
\* bullets) and the placement of P[idx mod |P|] does not fail; it receives at
\* most one, the image is P[idx mod |P|], and with an empty pool no slide has
\* an inserted image.
C11_ImageUnlessPlacementFails ==
    b_pc \in {"loop", "saved"} =>
        \A i \in 1..Len(prs.slides) :
            LET slide == prs.slides[i]
                pics == C11_Pictures(slide)
            IN /\ Cardinality(pics) <= 1
               /\ pics # {} <=>
                     /\ C11_Due(template_images, i - 1, slides_plan[i])
                     /\ C11_Image(template_images, i - 1) \notin UnplaceableImages
               /\ \A s \in pics :
                     /\ (i - 1) % Len(template_images) \in 0..(Len(template_images) - 1)
                     /\ slide.shapes[s].image = C11_Image(template_images, i - 1)
               /\ template_images = <<>> => pics = {}
\* a saved deck of four slides from a pool of two images: the fourth slide
\* (plan index 3, three bullets) has the image the index wraps round to, the
\* second (two bullets) has one, the third (three bullets) has none
C11_Witness ==
    /\ b_pc = "saved"
    /\ Len(template_images) = 2
    /\ Len(prs.slides) = 4
    /\ C11_BulletCount(slides_plan[4]) = 3
    /\ \E s \in C11_Pictures(prs.slides[4]) :
          prs.slides[4].shapes[s].image = template_images[2]
    /\ C11_BulletCount(slides_plan[2]) = 2
    /\ C11_Pictures(prs.slides[2]) # {}
    /\ C11_BulletCount(slides_plan[3]) = 3
    /\ C11_Pictures(prs.slides[3]) = {}
====
